---- MODULE Spec2Model ----
(***************************************************************************)
(* spawnm: create, list and destroy short-lived Hetzner instances.         *)
(* The model follows src/main.py: the instances.json registry, the three   *)
(* commands dispatched by main(), and the external processes they run      *)
(* (hcloud, ssh, rsync), whose results are nondeterministic inputs.        *)
(***************************************************************************)
EXTENDS Integers, Sequences, FiniteSets, TLC

\* Python's None (also a JSON null / an absent field of a provider response).
None == "None"

\* Number of tool invocations in one behaviour.
MaxCmds == 3

\* Invocations of the tool: process 1 runs the commands one at a time; a
\* second process exists for runs against the same state directory.
Procs == {1, 2}
SeqProcs == {1}

\* Names Create can be given: the default spawnm-tmp-XXXX and a --name value.
CreateNames == {"spawnm-tmp-ab12", "web-server"}
\* Other servers of the same Hetzner project, never created by this tool.
ForeignNames == {"spawnm-tmp-zz99", "db-prod"}
ProviderNames == CreateNames \cup ForeignNames
\* The names above in Python's string order, as sorted() returns them.
SortedNames == <<"db-prod", "spawnm-tmp-ab12", "spawnm-tmp-zz99", "web-server">>

\* Exit statuses of an external process: success and failure.
RetCodes == {0, 1}

\* --size/--image/--location values (the defaults and one override).
CreateSpecs ==
    { [size |-> "cx23", image |-> "ubuntu-24.04", location |-> "fsn1"],
      [size |-> "cx33", image |-> "debian-12", location |-> "nbg1"] }

\* settings["default_hetzner_ssh_key"], chosen by the install step.
DefaultSshKey == "id_hetzner"

\* What a successful `hcloud server create --output json` can carry:
\* the public ipv4 and the root password, either of which may be missing.
CreateResponses ==
    [ip : {None, "203.0.113.5"}, root_password : {None, "s3cr3t"}]

\* Remote directory sync_workdir computes: /root/<basename of cwd>.
RemotePath == "/root/project"

VARIABLES
    registry,       \* instances.json: ordered mapping name -> InstanceInfo
    lastCall,       \* per name, the most recent provider create/delete call
    ncmds,          \* invocations started so far
    pc,             \* per process: position in the running command
    args,           \* per process: parsed command line
    instances,      \* per process: the dict load_instances() returned
    todo,           \* per process: names destroy_server is still to be called on
    create_info,    \* per process: parsed output of the provider create call
    remote_workdir, \* per process: what sync_workdir returned
    servers,        \* per process: the server list cmd_list parsed
    calls,          \* per process: external processes run by this invocation
    out,            \* per process: what cmd_list / cmd_destroy printed
    exitCode,       \* per process: exit status once pc = "done"
    before,         \* per process: instances.json when the invocation started
    prev,           \* per process: what the invocation before this one was
    session,        \* per process: the remote command ssh_into_server runs
    concurrent,     \* an invocation was started while another was running
    probe           \* the wait_for_ssh loop: position, clock and attempts

vars == <<registry, lastCall, ncmds, pc, args, instances, todo, create_info,
          remote_workdir, servers, calls, out, exitCode, before, prev,
          session, concurrent, probe>>

-----------------------------------------------------------------------------
(* The registry is a Python dict read from / written to JSON: an ordered    *)
(* mapping.  It is a sequence of [key, info] entries with distinct keys.    *)

Keys(d) == {d[i].key : i \in 1..Len(d)}

KeyList(d) == [i \in 1..Len(d) |-> d[i].key]

Get(d, k) == (CHOOSE i \in 1..Len(d) : d[i].key = k)

Info(d, k) == d[Get(d, k)].info

\* Put that writes a mapping holding the new entry only.
PutFresh(d, k, v) == <<[key |-> k, info |-> v]>>

\* instances[name] = info: replaces in place, or appends a new key.
Put(d, k, v) ==
    IF k \in Keys(d)
    THEN [d EXCEPT ![Get(d, k)] = [key |-> k, info |-> v]]
    ELSE Append(d, [key |-> k, info |-> v])

\* Del that empties the mapping.
DelAllEntries(d, k) == <<>>

\* Del removing the first entry instead of the named one.
DelFirstEntry(d, k) == Tail(d)

\* del instances[name]
Del(d, k) == SelectSeq(d, LAMBDA e : e.key # k)

\* name.startswith(prefix)
StartsWith(s, prefix) ==
    /\ Len(s) >= Len(prefix)
    /\ SubSeq(s, 1, Len(prefix)) = prefix

\* sorted(names) for a set of names
Sorted(S) == SelectSeq(SortedNames, LAMBDA n : n \in S)

-----------------------------------------------------------------------------
NoCall == [op |-> "none", rc |-> 0]

NoOut == [msg |-> "", count |-> 0, lines |-> <<>>]

NoArgs ==
    [command |-> "none", name |-> None, size |-> None, image |-> None,
     location |-> None, ssh |-> FALSE, workdir |-> FALSE, all |-> FALSE]

CmdArgsCreate ==
    { [command |-> "create", name |-> n, size |-> s.size, image |-> s.image,
       location |-> s.location, ssh |-> b, workdir |-> w, all |-> FALSE] :
        n \in CreateNames, s \in CreateSpecs, b \in BOOLEAN, w \in BOOLEAN }

CmdArgsList == { [NoArgs EXCEPT !.command = "list"] }

CmdArgsDestroy ==
    { [NoArgs EXCEPT !.command = "destroy", !.name = n, !.all = a] :
        n \in CreateNames \cup {None}, a \in BOOLEAN }

\* wait_for_ssh before it is called.
ProbeIdle ==
    [pc |-> "idle", timeout |-> 0, elapsed |-> 0, attempts |-> 0, oks |-> 0,
     result |-> FALSE]

Init ==
    /\ registry = <<>>
    /\ lastCall = [n \in CreateNames |-> NoCall]
    /\ ncmds = 0
    /\ pc = [p \in Procs |-> "idle"]
    /\ args = [p \in Procs |-> NoArgs]
    /\ instances = [p \in Procs |-> <<>>]
    /\ todo = [p \in Procs |-> <<>>]
    /\ create_info = [p \in Procs |-> [ip |-> None, root_password |-> None]]
    /\ remote_workdir = [p \in Procs |-> None]
    /\ servers = [p \in Procs |-> {}]
    /\ calls = [p \in Procs |-> <<>>]
    /\ out = [p \in Procs |-> NoOut]
    /\ exitCode = [p \in Procs |-> 0]
    /\ before = [p \in Procs |-> <<>>]
    /\ prev = [p \in Procs |-> "other"]
    /\ session = [p \in Procs |-> <<>>]
    /\ concurrent = FALSE
    /\ probe = ProbeIdle

\* How a finished invocation is remembered by the next one: whether it was
\* a `destroy --all`, and if so whether it made no delete call, only delete
\* calls that returned 0, or some that failed.
Summary(a, cs) ==
    IF a.command = "destroy" /\ a.all
    THEN IF cs = <<>> THEN "destroy_all_empty"
         ELSE IF \A i \in 1..Len(cs) : cs[i].rc = 0 THEN "destroy_all_ok"
         ELSE "destroy_all_failed"
    ELSE "other"

\* The process is not in the middle of a command.
Finished(p) == pc[p] \in {"idle", "done", "exec"}

\* main(): parse the command line and dispatch on args.command.
main(p) ==
    /\ Finished(p)
    /\ ncmds < MaxCmds
    /\ \E a \in CmdArgsCreate \cup CmdArgsList \cup CmdArgsDestroy :
        /\ args' = [args EXCEPT ![p] = a]
        /\ pc' = [pc EXCEPT ![p] = a.command]
    /\ ncmds' = ncmds + 1
    /\ instances' = [instances EXCEPT ![p] = <<>>]
    /\ todo' = [todo EXCEPT ![p] = <<>>]
    /\ create_info' = [create_info EXCEPT ![p] = [ip |-> None, root_password |-> None]]
    /\ remote_workdir' = [remote_workdir EXCEPT ![p] = None]
    /\ servers' = [servers EXCEPT ![p] = {}]
    /\ calls' = [calls EXCEPT ![p] = <<>>]
    /\ out' = [out EXCEPT ![p] = NoOut]
    /\ exitCode' = [exitCode EXCEPT ![p] = 0]
    /\ before' = [before EXCEPT ![p] = registry]
    /\ prev' = [prev EXCEPT ![p] = Summary(args[p], calls[p])]
    /\ session' = [session EXCEPT ![p] = <<>>]
    /\ concurrent' = (concurrent \/ \E q \in Procs \ {p} : ~Finished(q))
    /\ UNCHANGED <<registry, lastCall, probe>>

-----------------------------------------------------------------------------
\* sys.exit(code), or main() returning (code 0).
Exit(p, code) ==
    /\ pc' = [pc EXCEPT ![p] = "done"]
    /\ exitCode' = [exitCode EXCEPT ![p] = code]

\* subprocess.run / os.execvp of an external program by process p.
Call(p, op, name, rc) ==
    calls' = [calls EXCEPT ![p] = Append(@, [op |-> op, name |-> name, rc |-> rc])]

\* InstanceRecord with the address dropped.
InstanceRecordNoIp(a, info) ==
    [name |-> a.name, size |-> a.size, image |-> a.image,
     location |-> a.location, ip |-> None,
     root_password |-> info.root_password, ssh_key |-> DefaultSshKey]

\* The record create_server hands to add_instance.
InstanceRecord(a, info) ==
    [name |-> a.name, size |-> a.size, image |-> a.image,
     location |-> a.location, ip |-> info.ip,
     root_password |-> info.root_password, ssh_key |-> DefaultSshKey]

\* CreateFailed with the status check left out.
CreateFailedNever(rc) == FALSE

\* `if result.returncode != 0` after the provider create call.
CreateFailed(rc) == rc # 0

\* cmd_create -> create_server: run `hcloud server create`; a non-zero
\* status exits with it, otherwise the JSON output is parsed.
create_server(p) ==
    /\ pc[p] = "create"
    /\ \E rc \in RetCodes, info \in CreateResponses :
        /\ Call(p, "create", args[p].name, rc)
        /\ lastCall' = [lastCall EXCEPT ![args[p].name] = [op |-> "create", rc |-> rc]]
        /\ IF CreateFailed(rc)
           THEN /\ Exit(p, rc)
                /\ UNCHANGED create_info
           ELSE /\ create_info' = [create_info EXCEPT ![p] = info]
                /\ pc' = [pc EXCEPT ![p] = "add_instance"]
                /\ UNCHANGED exitCode
    /\ UNCHANGED <<registry, ncmds, args, instances, todo, remote_workdir, servers, out, before, prev, concurrent, probe, session>>

\* add_instance, first half: instances = load_instances()
add_instance_load(p) ==
    /\ pc[p] = "add_instance"
    /\ instances' = [instances EXCEPT ![p] = registry]
    /\ pc' = [pc EXCEPT ![p] = "add_instance_save"]
    /\ UNCHANGED <<registry, lastCall, ncmds, args, todo, create_info,
                   remote_workdir, servers, calls, out, exitCode, before, prev, concurrent, probe, session>>

\* add_instance, second half: instances[name] = info; save_instances(instances)
add_instance_save(p) ==
    /\ pc[p] = "add_instance_save"
    /\ registry' = Put(instances[p], args[p].name,
                       InstanceRecord(args[p], create_info[p]))
    /\ pc' = [pc EXCEPT ![p] = "wait_for_ssh"]
    /\ UNCHANGED <<lastCall, ncmds, args, instances, todo, create_info,
                   remote_workdir, servers, calls, out, exitCode, before, prev, concurrent, probe, session>>

\* ShouldWait that waits only for an interactive session.
ShouldWaitOnlySsh(a, info) == info.ip # None /\ a.ssh

\* `if ip and (do_ssh or workdir)`: whether create_server calls wait_for_ssh.
ShouldWait(a, info) == info.ip # None /\ (a.ssh \/ a.workdir)

\* `if workdir`: whether create_server calls sync_workdir.
ShouldSync(a, info) == a.workdir

\* `if do_ssh`: whether create_server calls ssh_into_server.
ShouldConnect(a, info) == a.ssh

\* create_server: the wait_for_ssh step; its result only decides a warning.
wait_step(p) ==
    /\ pc[p] = "wait_for_ssh"
    /\ IF ShouldWait(args[p], create_info[p])
       THEN \E rc \in RetCodes : Call(p, "wait_for_ssh", create_info[p].ip, rc)
       ELSE UNCHANGED calls
    /\ pc' = [pc EXCEPT ![p] = "sync_workdir"]
    /\ UNCHANGED <<registry, lastCall, ncmds, args, instances, todo, create_info,
                   remote_workdir, servers, out, exitCode, before, prev, concurrent, probe, session>>

\* create_server: the sync_workdir step; rsync's status decides whether the
\* remote path or None comes back.
sync_step(p) ==
    /\ pc[p] = "sync_workdir"
    /\ IF ShouldSync(args[p], create_info[p])
       THEN \E rc \in RetCodes :
               /\ Call(p, "sync_workdir", create_info[p].ip, rc)
               /\ remote_workdir' = [remote_workdir EXCEPT ![p] =
                                        IF rc = 0 THEN RemotePath ELSE None]
       ELSE UNCHANGED <<calls, remote_workdir>>
    /\ pc' = [pc EXCEPT ![p] = "ssh_into_server"]
    /\ UNCHANGED <<registry, lastCall, ncmds, args, instances, todo, create_info,
                   servers, out, exitCode, before, prev, concurrent, probe, session>>

\* What ssh runs when ssh_into_server appends no remote command: a login
\* shell in the remote home directory.
DefaultSession == <<"login shell in the remote home">>

\* SessionCommand that always changes to the computed remote path.
SessionCommandAlwaysCd(workdir) == <<"cd", RemotePath, "exec $SHELL -l">>

\* `if workdir: ssh_cmd.extend(["-t", f"cd {workdir} && exec $SHELL -l"])`
SessionCommand(workdir) ==
    IF workdir # None THEN <<"cd", workdir, "exec $SHELL -l">> ELSE DefaultSession

\* create_server: ssh_into_server replaces the process (os.execvp), started
\* in remote_workdir when sync_workdir returned one; without --ssh the
\* connection command line is printed and create_server returns.
connect_step(p) ==
    /\ pc[p] = "ssh_into_server"
    /\ IF ShouldConnect(args[p], create_info[p])
       THEN /\ Call(p, "ssh_into_server", create_info[p].ip, 0)
            /\ session' = [session EXCEPT ![p] = SessionCommand(remote_workdir[p])]
            /\ pc' = [pc EXCEPT ![p] = "exec"]
            /\ UNCHANGED exitCode
       ELSE /\ Exit(p, 0)
            /\ UNCHANGED <<calls, session>>
    /\ UNCHANGED <<out, registry, lastCall, ncmds, args, instances, todo, create_info,
                   remote_workdir, servers, before, prev, concurrent, probe>>

-----------------------------------------------------------------------------
\* What `hcloud server list --output json` reports about one server.
LiveInfos ==
    { [ip |-> "203.0.113.5", status |-> "running", size |-> "cx23"],
      [ip |-> "198.51.100.7", status |-> "initializing", size |-> "cx33"] }

\* Outcomes of the provider list call: a status, whether stdout is JSON,
\* and the servers of the project it reports.
ListResponses ==
    { [rc |-> 0, json |-> TRUE,
       servers |-> { [name |-> n, ip |-> i.ip, status |-> i.status, size |-> i.size] : n \in S }] :
        S \in SUBSET ProviderNames, i \in LiveInfos }
    \cup { [rc |-> 1, json |-> FALSE, servers |-> {}],
           [rc |-> 0, json |-> FALSE, servers |-> {}] }

NamePrefix == "spawnm-tmp-"

\* The name filter of cmd_list's loop over the provider's servers.
IsListed(name) == StartsWith(name, NamePrefix)

\* hetzner_servers: the reported servers cmd_list keeps.
HetznerServers(reported) == {s \in reported : IsListed(s.name)}

\* The server of a given name in a set of reported servers.
ServerOf(hs, n) == CHOOSE s \in hs : s.name = n

\* The line cmd_list prints for a name of all_names.
ListLine(n, hs, cached) ==
    IF n \in {s.name : s \in hs}
    THEN [name |-> n, ip |-> ServerOf(hs, n).ip,
          status |-> ServerOf(hs, n).status, size |-> ServerOf(hs, n).size]
    ELSE [name |-> n, ip |-> Info(cached, n).ip,
          status |-> "not found", size |-> Info(cached, n).size]

\* Everything cmd_list prints, given the cache and hetzner_servers.
ListOutput(hs, cached) ==
    LET all_names == {s.name : s \in hs} \cup Keys(cached)
        order == Sorted(all_names)
    IN  IF all_names = {}
        THEN [msg |-> "No instances found.", count |-> 0, lines |-> <<>>]
        ELSE [msg |-> "Instances", count |-> Cardinality(all_names),
              lines |-> [i \in 1..Len(order) |-> ListLine(order[i], hs, cached)]]

\* cmd_list that also drops from instances.json the names the provider no
\* longer reports.
cmd_listPruning(p) ==
    /\ pc[p] = "list"
    /\ instances' = [instances EXCEPT ![p] = registry]
    /\ \E r \in ListResponses :
        /\ Call(p, "list", None, r.rc)
        /\ IF r.rc = 0 /\ ~r.json
           THEN /\ Exit(p, 1)
                /\ UNCHANGED <<servers, out>>
           ELSE /\ servers' = [servers EXCEPT ![p] = IF r.rc = 0 THEN r.servers ELSE {}]
                /\ out' = [out EXCEPT ![p] =
                              ListOutput(HetznerServers(servers'[p]), registry)]
                /\ Exit(p, 0)
    /\ registry' = SelectSeq(registry, LAMBDA e :
                        e.key \in {h.name : h \in HetznerServers(servers'[p])})
    /\ UNCHANGED <<lastCall, ncmds, args, todo, create_info, remote_workdir, before, prev, concurrent, probe, session>>

\* cmd_list: load the cache, ask the provider, print the merge.  Output
\* that is not JSON makes json.loads raise: the process dies with status 1.
cmd_list(p) ==
    /\ pc[p] = "list"
    /\ instances' = [instances EXCEPT ![p] = registry]
    /\ \E r \in ListResponses :
        /\ Call(p, "list", None, r.rc)
        /\ IF r.rc = 0 /\ ~r.json
           THEN /\ Exit(p, 1)
                /\ UNCHANGED <<servers, out>>
           ELSE /\ servers' = [servers EXCEPT ![p] = IF r.rc = 0 THEN r.servers ELSE {}]
                /\ out' = [out EXCEPT ![p] =
                              ListOutput(HetznerServers(servers'[p]), registry)]
                /\ Exit(p, 0)
    /\ UNCHANGED <<registry, lastCall, ncmds, args, todo, create_info, remote_workdir, before, prev, concurrent, probe, session>>

-----------------------------------------------------------------------------
\* DestroyTargets that looks at the name before --all.
DestroyTargetsNameFirst(a, d) ==
    IF a.name # None THEN <<a.name>>
    ELSE IF a.all THEN KeyList(d)
    ELSE IF Len(d) = 1 THEN <<d[1].key>>
    ELSE <<>>

\* DestroyTargets without the single-instance default.
DestroyTargetsNoShortcut(a, d) ==
    IF a.all THEN KeyList(d)
    ELSE IF a.name # None THEN <<a.name>>
    ELSE <<>>

\* DestroyTargets with `len(instances) >= 1` in place of `== 1`.
DestroyTargetsAtLeastOne(a, d) ==
    IF a.all THEN KeyList(d)
    ELSE IF a.name # None THEN <<a.name>>
    ELSE IF Len(d) >= 1 THEN <<d[1].key>>
    ELSE <<>>

\* The names cmd_destroy calls destroy_server on, in order.
DestroyTargets(a, d) ==
    IF a.all THEN KeyList(d)
    ELSE IF a.name # None THEN <<a.name>>
    ELSE IF Len(d) = 1 THEN <<d[1].key>>
    ELSE <<>>

\* The exit status of cmd_destroy, given the statuses of its delete calls.
DestroyStatus(rcs) == 0

\* cmd_destroy: load the registry and pick the targets; with several
\* instances and neither a name nor --all, list them and exit 1.
cmd_destroy(p) ==
    /\ pc[p] = "destroy"
    /\ instances' = [instances EXCEPT ![p] = registry]
    /\ LET a == args[p]
           d == registry
           targets == DestroyTargets(a, d)
       IN  IF targets # <<>>
           THEN /\ todo' = [todo EXCEPT ![p] = targets]
                /\ pc' = [pc EXCEPT ![p] = "destroy_server"]
                /\ UNCHANGED <<out, exitCode>>
           ELSE IF Len(d) = 0
           THEN /\ out' = [out EXCEPT ![p] = [NoOut EXCEPT !.msg = "No instances to destroy."]]
                /\ Exit(p, 0)
                /\ UNCHANGED todo
           ELSE /\ out' = [out EXCEPT ![p] =
                     [msg |-> "Multiple instances found", count |-> Len(d),
                      lines |-> [i \in 1..Len(d) |->
                                    [name |-> d[i].key, ip |-> d[i].info.ip,
                                     status |-> None, size |-> None]]]]
                /\ Exit(p, 1)
                /\ UNCHANGED todo
    /\ UNCHANGED <<registry, lastCall, ncmds, args, create_info, remote_workdir,
                   servers, calls, before, prev, concurrent, probe, session>>

\* Advance that leaves the loop at the first failed delete call.
AdvanceAbortOnFailure(p, cs) ==
    /\ todo' = [todo EXCEPT ![p] = Tail(@)]
    /\ IF Tail(todo[p]) = <<>> \/ cs[Len(cs)].rc # 0
       THEN Exit(p, DestroyStatus([i \in 1..Len(cs) |-> cs[i].rc]))
       ELSE /\ pc' = [pc EXCEPT ![p] = "destroy_server"]
            /\ UNCHANGED exitCode

\* After destroy_server returns: the next name of the loop, or the end of
\* cmd_destroy, whose status does not depend on the delete calls.
Advance(p, cs) ==
    /\ todo' = [todo EXCEPT ![p] = Tail(@)]
    /\ IF Tail(todo[p]) = <<>>
       THEN Exit(p, DestroyStatus([i \in 1..Len(cs) |-> cs[i].rc]))
       ELSE /\ pc' = [pc EXCEPT ![p] = "destroy_server"]
            /\ UNCHANGED exitCode

\* ShouldRemove that drops the record whatever the delete call returned.
ShouldRemoveAlways(rc) == TRUE

\* ShouldRemove with the remove_instance call left out.
ShouldRemoveNever(rc) == FALSE

\* Whether destroy_server goes on to remove_instance after a delete call.
ShouldRemove(rc) == rc = 0

\* destroy_server: run `hcloud server delete <name>`; on status 0 go on to
\* remove_instance, otherwise return.
destroy_server(p) ==
    /\ pc[p] = "destroy_server"
    /\ todo[p] # <<>>
    /\ \E rc \in RetCodes :
        LET name == Head(todo[p]) IN
        /\ Call(p, "delete", name, rc)
        /\ lastCall' = [lastCall EXCEPT ![name] = [op |-> "delete", rc |-> rc]]
        /\ IF ShouldRemove(rc)
           THEN /\ pc' = [pc EXCEPT ![p] = "remove_instance"]
                /\ UNCHANGED <<todo, exitCode>>
           ELSE Advance(p, calls'[p])
    /\ UNCHANGED <<registry, ncmds, args, instances, create_info, remote_workdir,
                   servers, out, before, prev, concurrent, probe, session>>

\* remove_instance, first half: instances = load_instances()
remove_instance_load(p) ==
    /\ pc[p] = "remove_instance"
    /\ instances' = [instances EXCEPT ![p] = registry]
    /\ pc' = [pc EXCEPT ![p] = "remove_instance_save"]
    /\ UNCHANGED <<registry, lastCall, ncmds, args, todo, create_info,
                   remote_workdir, servers, calls, out, exitCode, before, prev, concurrent, probe, session>>

\* remove_instance, second half: delete the key and save, when it is there.
remove_instance_save(p) ==
    /\ pc[p] = "remove_instance_save"
    /\ LET name == Head(todo[p]) IN
        registry' = IF name \in Keys(instances[p])
                    THEN Del(instances[p], name)
                    ELSE registry
    /\ Advance(p, calls[p])
    /\ UNCHANGED <<lastCall, ncmds, args, instances, create_info, remote_workdir,
                   servers, calls, out, before, prev, concurrent, probe, session>>

-----------------------------------------------------------------------------
\* Commands run one at a time, each to completion.
Next ==
    \E p \in SeqProcs :
        \/ main(p)
        \/ create_server(p)
        \/ add_instance_load(p)
        \/ add_instance_save(p)
        \/ wait_step(p)
        \/ sync_step(p)
        \/ connect_step(p)
        \/ cmd_list(p)
        \/ cmd_destroy(p)
        \/ destroy_server(p)
        \/ remove_instance_load(p)
        \/ remove_instance_save(p)

Spec == Init /\ [][Next]_vars

\* The command lines of the concurrent runs: the commands that write the
\* registry, create without --ssh and --workdir and destroy <name>.
ConcArgs ==
    {a \in CmdArgsCreate : ~a.ssh /\ ~a.workdir /\ a.size = "cx23"}
    \cup {a \in CmdArgsDestroy : a.name # None /\ ~a.all}

\* main() started with one of ConcArgs.  The first process runs command
\* after command; the second process is one more invocation, started while
\* a command of the first is running.
mainConc(p) ==
    /\ main(p)
    /\ args'[p] \in ConcArgs
    /\ p \notin SeqProcs =>
          /\ pc[p] = "idle"
          /\ \E q \in SeqProcs : ~Finished(q)

\* Two invocations running against the same registry file: the steps of
\* either process, in any interleaving.
NextConc ==
    \E p \in Procs :
        \/ mainConc(p)
        \/ create_server(p)
        \/ add_instance_load(p)
        \/ add_instance_save(p)
        \/ wait_step(p)
        \/ sync_step(p)
        \/ connect_step(p)
        \/ cmd_destroy(p)
        \/ destroy_server(p)
        \/ remove_instance_load(p)
        \/ remove_instance_save(p)

SpecConc == Init /\ [][NextConc]_vars

-----------------------------------------------------------------------------
(* wait_for_ssh, with its clock.  Time is counted in ticks; an attempt      *)
(* takes any time up to ssh's ConnectTimeout and succeeds or fails.         *)

\* Clock resolution.
TicksPerSecond == 2

\* `-o ConnectTimeout=5`
ConnectTimeout == 5

\* `time.sleep(2)`
SleepSeconds == 2

\* `timeout=60`, the default create_server relies on.
DefaultTimeout == 60

\* Values of the timeout parameter, in seconds.
Timeouts == {0, 1, 6, DefaultTimeout}

\* Everything but the probe.
mainVars == <<registry, lastCall, ncmds, pc, args, instances, todo, create_info,
              remote_workdir, servers, calls, out, exitCode, before, prev,
              session, concurrent>>

\* LoopCondition that still starts an attempt when the timeout is reached.
LoopConditionInclusive(elapsed, timeout) == elapsed <= timeout

\* `while time.time() - start < timeout`
LoopCondition(elapsed, timeout) == elapsed < timeout

\* ProbeSucceeded that never reports a success.
ProbeSucceededNever(rc) == FALSE

\* `if result.returncode == 0`
ProbeSucceeded(rc) == rc = 0

\* wait_for_ssh is called: start = time.time()
wait_for_ssh(t) ==
    /\ probe.pc \in {"idle", "returned"}
    /\ probe' = [ProbeIdle EXCEPT !.pc = "test", !.timeout = t * TicksPerSecond]
    /\ UNCHANGED mainVars

\* The loop condition: another attempt, or `return False`.
wait_test ==
    /\ probe.pc = "test"
    /\ IF LoopCondition(probe.elapsed, probe.timeout)
       THEN probe' = [probe EXCEPT !.pc = "attempt"]
       ELSE probe' = [probe EXCEPT !.pc = "returned", !.result = FALSE]
    /\ UNCHANGED mainVars

\* One ssh attempt of some duration: `return True` on status 0.
wait_attempt ==
    /\ probe.pc = "attempt"
    /\ \E d \in 0..(ConnectTimeout * TicksPerSecond), rc \in RetCodes :
        probe' = [probe EXCEPT
                     !.elapsed = @ + d,
                     !.attempts = @ + 1,
                     !.oks = IF rc = 0 THEN @ + 1 ELSE @,
                     !.pc = IF ProbeSucceeded(rc) THEN "returned" ELSE "sleep",
                     !.result = ProbeSucceeded(rc)]
    /\ UNCHANGED mainVars

\* time.sleep(2) after a failed attempt.
wait_sleep ==
    /\ probe.pc = "sleep"
    /\ probe' = [probe EXCEPT !.elapsed = @ + SleepSeconds * TicksPerSecond,
                              !.pc = "test"]
    /\ UNCHANGED mainVars

NextProbe ==
    \/ \E t \in Timeouts : wait_for_ssh(t)
    \/ wait_test
    \/ wait_attempt
    \/ wait_sleep

\* The prober alone; the process is single-threaded and keeps running.
SpecProbe == Init /\ [][NextProbe]_vars /\ WF_vars(NextProbe)

-----------------------------------------------------------------------------
(* Properties.                                                              *)

\* The programs an invocation has run so far.
Ops(p) == {calls[p][i].op : i \in 1..Len(calls[p])}

\* The steps of create_server that need the server's address.
ConnectOps == {"wait_for_ssh", "sync_workdir", "ssh_into_server"}

\* The provider create call of this invocation returned status 0.
CreateSucceeded(p) ==
    /\ args[p].command = "create"
    /\ Len(calls[p]) >= 1
    /\ calls[p][1].op = "create"
    /\ calls[p][1].rc = 0

\* Number of registry entries keyed by a name.
Entries(d, n) == Cardinality({i \in 1..Len(d) : d[i].key = n})

\* C1 (degraded creation): a Create whose provider call succeeded without an
\* ip runs none of wait_for_ssh, sync_workdir, ssh_into_server, whatever the
\* --ssh/--workdir flags, and ends with status 0 and exactly one registry
\* entry for the name.
C1_DegradedCreation ==
    \A p \in Procs :
        (CreateSucceeded(p) /\ create_info[p].ip = None) =>
            /\ Ops(p) \cap ConnectOps = {}
            /\ Finished(p) =>
                /\ pc[p] = "done"
                /\ exitCode[p] = 0
                /\ Entries(registry, args[p].name) = 1

\* A destroy invocation given neither a name nor --all.
NoSelector(p) ==
    /\ args[p].command = "destroy"
    /\ args[p].name = None
    /\ ~args[p].all

\* C2 (disambiguation): destroy without a name and without --all, on a
\* registry of two or more entries, runs no provider call, leaves the
\* registry as it was and exits with a non-zero status.
C2_Disambiguation ==
    [][\A p \in Procs :
          (pc[p] = "destroy" /\ pc'[p] # "destroy" /\ NoSelector(p) /\ Len(registry) >= 2) =>
              /\ pc'[p] = "done"
              /\ exitCode'[p] # 0
              /\ calls'[p] = <<>>
              /\ registry' = registry
              /\ lastCall' = lastCall]_vars

\* C2 witness: such a destroy has ended, with both instances still tracked.
C2_Witness ==
    /\ NoSelector(1)
    /\ pc[1] = "done"
    /\ Len(before[1]) >= 2
    /\ exitCode[1] = 1
    /\ registry = before[1]
    /\ out[1].msg = "Multiple instances found"

\* A finished `destroy --all` invocation.
DestroyAllDone(p) ==
    /\ args[p].command = "destroy"
    /\ args[p].all
    /\ pc[p] = "done"

\* Every call in a log returned status 0.
AllOk(cs) == \A i \in 1..Len(cs) : cs[i].rc = 0

NamesOf(hs) == {s.name : s \in hs}

\* The lines of an output, as a set.
Lines(o) == {o.lines[i] : i \in 1..Len(o.lines)}

\* C4 (reconciliation completeness): with A the names only the provider
\* reports, B the names only in the registry and C the names in both, list
\* prints exactly A, B and C; A and C with the provider's ip/status/size, B
\* with the cached ip/size and "not found"; and "No instances found." only
\* when all three are empty.  The names are names create can be given.
C4_Reconciliation ==
    \A p \in Procs :
        (/\ args[p].command = "list" /\ pc[p] = "done" /\ exitCode[p] = 0
         /\ NamesOf(servers[p]) \subseteq CreateNames) =>
            LET P == NamesOf(servers[p])
                K == Keys(registry)
                A == P \ K
                B == K \ P
                C == P \cap K
            IN  /\ {l.name : l \in Lines(out[p])} = A \cup B \cup C
                /\ \A s \in servers[p] :
                      [name |-> s.name, ip |-> s.ip, status |-> s.status,
                       size |-> s.size] \in Lines(out[p])
                /\ \A n \in B :
                      [name |-> n, ip |-> Info(registry, n).ip, status |-> "not found",
                       size |-> Info(registry, n).size] \in Lines(out[p])
                /\ out[p].msg = "No instances found." => A \cup B \cup C = {}

\* C5 (single-target shortcut): destroy without a name and without --all,
\* on a registry of exactly one entry, makes exactly one provider delete
\* call, for that entry's name, and when it returns 0 the registry is empty.
C5_SingleTarget ==
    \A p \in Procs :
        (NoSelector(p) /\ Len(before[p]) = 1 /\ pc[p] = "done") =>
            /\ Len(calls[p]) = 1
            /\ calls[p][1].op = "delete"
            /\ calls[p][1].name = before[p][1].key
            /\ calls[p][1].rc = 0 => registry = <<>>

\* C5 witness: the only tracked instance was deleted by a bare destroy.
C5_Witness ==
    /\ NoSelector(1)
    /\ Len(before[1]) = 1
    /\ pc[1] = "done"
    /\ calls[1] = <<[op |-> "delete", name |-> before[1][1].key, rc |-> 0]>>
    /\ registry = <<>>

\* C6 (create failure is atomic): when the provider create call returns a
\* non-zero status, create exits with that non-zero status right away: the
\* registry is as it was before and none of wait_for_ssh, sync_workdir,
\* ssh_into_server has run.
C6_CreateFailureAtomic ==
    \A p \in Procs :
        (args[p].command = "create" /\ calls[p] # <<>> /\ calls[p][1].rc # 0) =>
            /\ pc[p] = "done"
            /\ exitCode[p] # 0
            /\ exitCode[p] = calls[p][1].rc
            /\ registry = before[p]
            /\ Len(calls[p]) = 1

\* C6 witness: a create of an already tracked name was rejected.
C6_Witness ==
    /\ args[1].command = "create"
    /\ args[1].name \in Keys(before[1])
    /\ calls[1] = <<[op |-> "create", name |-> args[1].name, rc |-> 1]>>
    /\ pc[1] = "done"
    /\ exitCode[1] = 1

C8_NoDeletedNames ==
    (\A p \in Procs : Finished(p)) =>
        \A n \in CreateNames :
            lastCall[n] = [op |-> "delete", rc |-> 0] => n \notin Keys(registry)

\* C8 witness: a tracked name was deleted at the provider and is gone from
\* the registry, another one staying.
C8_Witness ==
    /\ pc[1] = "done"
    /\ args[1].command = "destroy"
    /\ \E n \in Keys(before[1]) :
          /\ lastCall[n] = [op |-> "delete", rc |-> 0]
          /\ n \notin Keys(registry)
    /\ registry # <<>>

\* The status of the last failed call of a log, 0 when none failed.
LastFailing(cs) ==
    LET failed == {i \in 1..Len(cs) : cs[i].rc # 0}
    IN  IF failed = {} THEN 0
        ELSE cs[CHOOSE i \in failed : \A j \in failed : j <= i].rc

\* C9 (destroy's exit status mirrors the provider): a destroy of one name
\* exits with the status of its delete call, and destroy --all with the
\* status of its last failed delete call, 0 when none failed.
C9_ExitStatusMirrors ==
    \A p \in Procs :
        (args[p].command = "destroy" /\ pc[p] = "done" /\ calls[p] # <<>>) =>
            exitCode[p] = IF args[p].all THEN LastFailing(calls[p])
                          ELSE calls[p][1].rc

\* The status of the delete call made for a name.
StatusOf(cs, n) == cs[CHOOSE i \in 1..Len(cs) : cs[i].name = n].rc

\* C10 (destroy --all attempts every tracked name): it makes exactly one
\* provider delete call for each name of the registry it loaded, in order,
\* whatever the earlier calls returned, and ends with the registry holding
\* exactly the entries whose delete call failed.
C10_DestroyAllAttemptsAll ==
    \A p \in Procs :
        DestroyAllDone(p) =>
            /\ [i \in 1..Len(calls[p]) |-> calls[p][i].name] = KeyList(before[p])
            /\ \A i \in 1..Len(calls[p]) : calls[p][i].op = "delete"
            /\ registry = SelectSeq(before[p],
                                    LAMBDA e : StatusOf(calls[p], e.key) # 0)

\* C10 witness: of two tracked names the first delete failed, the second
\* was still attempted and succeeded, and only the first name is left.
C10_Witness ==
    /\ DestroyAllDone(1)
    /\ Len(before[1]) = 2
    /\ Len(calls[1]) = 2
    /\ calls[1][1].rc = 1
    /\ calls[1][2].rc = 0
    /\ KeyList(registry) = <<before[1][1].key>>

\* C11 (list is read-only): whatever the provider list call returns, also
\* a failure, output that is not JSON or servers the registry does not
\* know, a list invocation leaves instances.json as it found it and runs no
\* program but `hcloud server list`.
C11_ListReadOnly ==
    \A p \in Procs :
        args[p].command = "list" =>
            /\ registry = before[p]
            /\ Ops(p) \subseteq {"list"}

\* C11 witness: list has ended on a registry that tracks a name the
\* provider does not report and misses one it does report.
C11_Witness ==
    /\ args[1].command = "list"
    /\ pc[1] = "done"
    /\ exitCode[1] = 0
    /\ Keys(registry) \ NamesOf(servers[1]) # {}
    /\ NamesOf(HetznerServers(servers[1])) \ Keys(registry) # {}
    /\ registry = before[1]

\* C12 (list never crashes): whatever the provider list call returns, list
\* ends normally, and when the call failed or its output was not usable the
\* provider's servers count as none: every registry name is printed as
\* "not found", or "No instances found." when the registry is empty.
C12_ListNeverCrashes ==
    \A p \in Procs :
        (args[p].command = "list" /\ pc[p] = "done") =>
            /\ exitCode[p] = 0
            /\ servers[p] = {} =>
                /\ {l.name : l \in Lines(out[p])} = Keys(registry)
                /\ \A l \in Lines(out[p]) : l.status = "not found"
                /\ registry = <<>> => out[p].msg = "No instances found."

\* wait_for_ssh has returned without a successful attempt, timeout 6.
ProbeFailedAtSix ==
    /\ probe.pc = "returned"
    /\ probe.timeout = 6 * TicksPerSecond
    /\ probe.oks = 0

\* C13 as stated (probe timeout bound): with timeout 6 and every attempt
\* failing, wait_for_ssh returns false no later than 8 seconds after it
\* started.
C13_Original ==
    ProbeFailedAtSix =>
        /\ probe.result = FALSE
        /\ probe.elapsed <= 8 * TicksPerSecond

\* C13 amended: with timeout 6 and every attempt failing, wait_for_ssh
\* always returns, it returns false, and it does so less than 13 seconds
\* after it started: the timeout, one attempt of up to 5 seconds started
\* just before it, and the 2 second sleep that follows.
C13_ProbeBound ==
    /\ [](ProbeFailedAtSix =>
            /\ probe.result = FALSE
            /\ probe.elapsed < 13 * TicksPerSecond)
    /\ (probe.pc = "test") ~> (probe.pc = "returned")

\* C13 witness: the last attempt started just before the timeout and took
\* the whole 5 seconds.
C13_Witness ==
    /\ ProbeFailedAtSix
    /\ probe.result = FALSE
    /\ probe.elapsed > 12 * TicksPerSecond

\* C15 (prober result): wait_for_ssh returns true exactly when one of its
\* attempts succeeded, and then right at that attempt, the first and only
\* successful one and the last step taken; it returns false only once the
\* elapsed time has reached the timeout; and with a positive timeout it
\* makes at least one attempt.
C15_ProberResult ==
    /\ probe.oks <= 1
    /\ probe.oks = 1 => probe.pc = "returned"
    /\ probe.pc = "returned" =>
        /\ probe.result = (probe.oks >= 1)
        /\ ~probe.result => probe.elapsed >= probe.timeout
        /\ probe.timeout > 0 => probe.attempts >= 1

\* C15 witness: success at the third attempt, before the timeout.
C15_Witness ==
    /\ probe.pc = "returned"
    /\ probe.result = TRUE
    /\ probe.attempts = 3
    /\ probe.elapsed < probe.timeout

\* The programs an invocation has run, in order.
OpSeq(p) == [i \in 1..Len(calls[p]) |-> calls[p][i].op]

\* The calls of an invocation, as a set.
CallSet(p) == {calls[p][i] : i \in 1..Len(calls[p])}

\* What a create that got an ip is to run, whatever wait_for_ssh and rsync
\* return: the steps asked for, in order.
RequestedOps(a) ==
    <<"create">>
    \o (IF a.ssh \/ a.workdir THEN <<"wait_for_ssh">> ELSE <<>>)
    \o (IF a.workdir THEN <<"sync_workdir">> ELSE <<>>)
    \o (IF a.ssh THEN <<"ssh_into_server">> ELSE <<>>)

\* sync_workdir ran and rsync returned 0.
Synced(p) == \E c \in CallSet(p) : c.op = "sync_workdir" /\ c.rc = 0

\* C14 (recoverable failures never abort create): after a successful create
\* with an ip, whatever wait_for_ssh and rsync return, create ends having
\* run every requested step in order; with --ssh it ends in the ssh session,
\* started in the synced directory when rsync succeeded and in the remote
\* home otherwise; without --ssh it ends with status 0.
C14_RecoverableFailures ==
    \A p \in Procs :
        (CreateSucceeded(p) /\ create_info[p].ip # None /\ Finished(p)) =>
            /\ OpSeq(p) = RequestedOps(args[p])
            /\ IF args[p].ssh
               THEN /\ pc[p] = "exec"
                    /\ session[p] = IF Synced(p)
                                    THEN <<"cd", RemotePath, "exec $SHELL -l">>
                                    ELSE DefaultSession
               ELSE /\ pc[p] = "done"
                    /\ exitCode[p] = 0

\* C14 witness: wait_for_ssh timed out, rsync failed, and the ssh session
\* was still started, in the remote home.
C14_Witness ==
    /\ CreateSucceeded(1)
    /\ create_info[1].ip # None
    /\ [op |-> "wait_for_ssh", name |-> create_info[1].ip, rc |-> 1] \in CallSet(1)
    /\ [op |-> "sync_workdir", name |-> create_info[1].ip, rc |-> 1] \in CallSet(1)
    /\ pc[1] = "exec"
    /\ session[1] = DefaultSession

\* C16 as stated (sync ordering), already for creates that got an ip:
\* sync_workdir runs only after a wait_for_ssh of the same run returned true.
C16_Original ==
    \A p \in Procs :
        (CreateSucceeded(p) /\ create_info[p].ip # None) =>
            \A i \in 1..Len(calls[p]) :
                calls[p][i].op = "sync_workdir" =>
                    \E j \in 1..(i - 1) :
                        calls[p][j].op = "wait_for_ssh" /\ calls[p][j].rc = 0

\* C16 amended: sync_workdir runs only after the wait_for_ssh step of the
\* same run: after wait_for_ssh has returned, true or false, when the
\* provider returned an ip, and with wait_for_ssh not run at all when it
\* returned none.
C16_SyncAfterProbe ==
    \A p \in Procs :
        \A i \in 1..Len(calls[p]) :
            calls[p][i].op = "sync_workdir" =>
                IF create_info[p].ip # None
                THEN \E j \in 1..(i - 1) : calls[p][j].op = "wait_for_ssh"
                ELSE "wait_for_ssh" \notin Ops(p)

\* C16 witness: rsync ran after a wait_for_ssh that returned false.
C16_Witness ==
    /\ CreateSucceeded(1)
    /\ Len(calls[1]) >= 3
    /\ calls[1][2] = [op |-> "wait_for_ssh", name |-> create_info[1].ip, rc |-> 1]
    /\ calls[1][3].op = "sync_workdir"

\* C17 (failed delete keeps the record): a name whose provider delete call
\* returned a non-zero status is in the registry exactly if it was there
\* before, with the same record, in destroy <name>, bare destroy and
\* destroy --all alike.
C17_FailedDeleteKeeps ==
    \A p \in Procs :
        args[p].command = "destroy" =>
            \A c \in CallSet(p) :
                (c.op = "delete" /\ c.rc # 0) =>
                    /\ c.name \in Keys(registry) <=> c.name \in Keys(before[p])
                    /\ c.name \in Keys(before[p]) =>
                          Info(registry, c.name) = Info(before[p], c.name)

\* C17 witness: a destroy of a tracked name failed and the registry is as
\* it was.
C17_Witness ==
    /\ args[1].command = "destroy"
    /\ args[1].name # None
    /\ ~args[1].all
    /\ pc[1] = "done"
    /\ args[1].name \in Keys(before[1])
    /\ calls[1] = <<[op |-> "delete", name |-> args[1].name, rc |-> 1]>>
    /\ registry = before[1]

\* The names an invocation may write: the name given to create, the names
\* destroy has called the provider's delete for.
Touched(p) ==
    IF args[p].command = "create" THEN {args[p].name}
    ELSE IF args[p].command = "destroy"
    THEN {c.name : c \in {c \in CallSet(p) : c.op = "delete"}}
    ELSE {}

\* A destroy <name> invocation, without --all.
NamedDestroy(p) ==
    /\ args[p].command = "destroy"
    /\ args[p].name # None
    /\ ~args[p].all

\* C19 (frame of registry writes): with commands run one at a time, a
\* create or destroy changes no registry entry but those of the names it
\* targets; and destroy <name> for a name that is not tracked makes the
\* provider delete call for it and leaves the registry as it was, whatever
\* the call returns.
C19_Frame ==
    \A p \in SeqProcs :
        /\ \A m \in CreateNames \ Touched(p) :
              /\ m \in Keys(registry) <=> m \in Keys(before[p])
              /\ m \in Keys(before[p]) => Info(registry, m) = Info(before[p], m)
        /\ (NamedDestroy(p) /\ args[p].name \notin Keys(before[p]) /\ pc[p] = "done") =>
              /\ Len(calls[p]) = 1
              /\ calls[p][1].op = "delete"
              /\ calls[p][1].name = args[p].name
              /\ registry = before[p]

\* C19 witness: destroy <name> of an untracked name succeeded at the
\* provider, and the one tracked instance is untouched.
C19_Witness ==
    /\ NamedDestroy(1)
    /\ pc[1] = "done"
    /\ before[1] # <<>>
    /\ args[1].name \notin Keys(before[1])
    /\ calls[1] = <<[op |-> "delete", name |-> args[1].name, rc |-> 0]>>
    /\ registry = before[1]

\* The registry disagrees with the provider's last confirmation for a name:
\* it misses a name whose create was confirmed, or holds a name whose
\* delete was confirmed.
LostUpdate(n) ==
    /\ lastCall[n].rc = 0
    /\ \/ lastCall[n].op = "create" /\ n \notin Keys(registry)
       \/ lastCall[n].op = "delete" /\ n \in Keys(registry)

C18_WitnessDestroy ==
    /\ concurrent
    /\ \A p \in Procs : Finished(p)
    /\ NamedDestroy(1)
    /\ calls[1] = <<[op |-> "delete", name |-> args[1].name, rc |-> 0]>>
    /\ CreateSucceeded(2)
    /\ args[2].name # args[1].name
    /\ args[1].name \in Keys(registry)
    /\ args[2].name \in Keys(registry)

\* A finished destroy given both a name and --all.
NameAndAllDone(p) ==
    /\ args[p].command = "destroy"
    /\ args[p].name # None
    /\ args[p].all
    /\ pc[p] = "done"

\* C20 (selector precedence): destroy given both a name and --all calls the
\* provider's delete for every registry name and for nothing else: not for
\* the given name unless it is tracked, and not at all on an empty registry.
C20_AllWins ==
    \A p \in Procs :
        NameAndAllDone(p) =>
            /\ [i \in 1..Len(calls[p]) |-> calls[p][i].name] = KeyList(before[p])
            /\ OpSeq(p) = [i \in 1..Len(before[p]) |-> "delete"]
            /\ args[p].name \notin Keys(before[p]) =>
                  \A c \in CallSet(p) : c.name # args[p].name
            /\ before[p] = <<>> => calls[p] = <<>>

\* C20 witness: the given name is not tracked, another one is, and only
\* that one was deleted.
C20_Witness ==
    /\ NameAndAllDone(1)
    /\ args[1].name \notin Keys(before[1])
    /\ Len(before[1]) = 1
    /\ calls[1] = <<[op |-> "delete", name |-> before[1][1].key, rc |-> 0]>>
    /\ registry = <<>>
====
